---- MODULE Spec2Model ----
(***************************************************************************)
(* A model of extract_dividends.py: the run driver main(), the per-symbol  *)
(* orchestrator process_symbol() and the three fetchers built on           *)
(* make_api_request(), with the document scan of get_sec_reports() and     *)
(* check_dividend_content().  The program is sequential; one action is one *)
(* stretch of code from one network call to the next.                      *)
(*                                                                         *)
(* Python values: a dict is a function on its keys (a record), d.get(k, v) *)
(* is Get(d, k, v), None is a tagged record, a str whose characters matter *)
(* is a sequence of one-character strings, a URL is a sequence of its      *)
(* path pieces.                                                            *)
(***************************************************************************)
EXTENDS Integers, Sequences, FiniteSets, TLC

\* ------------------------------------------------------------- bounds
MaxRows == 2        \* rows of symbols.csv
MaxFilings == 2     \* elements of data['values'] in one archive response
MaxFiles == 2       \* elements of one filing's 'files'
MaxFrags == 2       \* fragments concatenated into one document text

SeqsUpTo(S, n) == UNION {[1..k -> S] : k \in 0..n}

\* ------------------------------------------------------------- python helpers
Get(d, k, default) == IF k \in DOMAIN d THEN d[k] ELSE default

RECURSIVE Flatten(_)
Flatten(ss) == IF ss = <<>> THEN <<>> ELSE Head(ss) \o Flatten(Tail(ss))

\* str.endswith(suffix)
EndsWith(s, suffix) ==
    /\ Len(s) >= Len(suffix)
    /\ SubSeq(s, Len(s) - Len(suffix) + 1, Len(s)) = suffix

\* needle in hay
Contains(needle, hay) ==
    \E k \in 0..(Len(hay) - Len(needle)) : SubSeq(hay, k + 1, k + Len(needle)) = needle

\* str.replace(old, new): every non-overlapping occurrence, left to right
RECURSIVE Replace(_, _, _)
Replace(s, old, new) ==
    IF Len(s) < Len(old) THEN s
    ELSE IF SubSeq(s, 1, Len(old)) = old
         THEN new \o Replace(SubSeq(s, Len(old) + 1, Len(s)), old, new)
         ELSE <<Head(s)>> \o Replace(Tail(s), old, new)

\* str.lower() on the letters the document texts are written in
UpperToLower == [D |-> "d", I |-> "i", V |-> "v", E |-> "e", N |-> "n"]
LowerChar(c) == IF c \in DOMAIN UpperToLower THEN UpperToLower[c] ELSE c
Lower(s) == [k \in 1..Len(s) |-> LowerChar(s[k])]

\* ------------------------------------------------------------- the input file
\* rows of symbols.csv as csv.DictReader yields them
CsvRows == { [symbol_ticker |-> <<"AAPL">>,      exchange |-> <<"NASDAQ">>],
             [symbol_ticker |-> <<" ", "IBM">>,  exchange |-> <<"NYSE", " ">>],
             [symbol_ticker |-> <<" ">>,         exchange |-> <<"NASDAQ">>],
             [symbol_ticker |-> <<"MSFT">>,      exchange |-> <<>>] }
CsvFiles == SeqsUpTo(CsvRows, MaxRows)

\* str.strip() on a string given as its whitespace and non-whitespace pieces
RECURSIVE LStrip(_)
LStrip(s) == IF s # <<>> /\ Head(s) = " " THEN LStrip(Tail(s)) ELSE s
RECURSIVE RStrip(_)
RStrip(s) == IF s # <<>> /\ s[Len(s)] = " " THEN RStrip(SubSeq(s, 1, Len(s) - 1)) ELSE s
Strip(s) == RStrip(LStrip(s))

RECURSIVE load_symbols(_)
load_symbols(rows) ==
    IF rows = <<>> THEN <<>>
    ELSE LET symbol == Strip(Head(rows).symbol_ticker)
             exchange == Strip(Head(rows).exchange)
         IN  (IF symbol # <<>> /\ exchange # <<>>
              THEN << <<symbol, exchange>> >> ELSE <<>>) \o load_symbols(Tail(rows))

\* --limit values
Limits == 0 .. MaxRows

\* symbols[:limit] for limit > 0
Slice(symbols, limit) ==
    SubSeq(symbols, 1, IF limit < Len(symbols) THEN limit ELSE Len(symbols))

\* symbols[:args.limit] without the test of args.limit
ApplyLimitAlways(symbols, limit) == Slice(symbols, limit)

ApplyLimit(symbols, limit) == IF limit > 0 THEN Slice(symbols, limit) ELSE symbols

\* ------------------------------------------------------------- JSON values
\* A decoded JSON value carries its Python type in t.  Amounts are in
\* hundredths, URLs and tickers are sequences of pieces.
None == [t |-> "None"]
Dict(d) == [t |-> "dict", v |-> d]
List(xs) == [t |-> "list", v |-> xs]
Str(s) == [t |-> "str", v |-> s]
EmptyDict == [k \in {} |-> 0]

\* bool(x)
Truthy(x) ==
    CASE x.t = "None" -> FALSE
      [] x.t = "list" -> Len(x.v) > 0
      [] x.t = "dict" -> DOMAIN x.v # {}
      [] OTHER -> TRUE

\* key in x, for a string key and x a dict or a list of non-strings
KeyIn(key, x) == x.t = "dict" /\ key \in DOMAIN x.v

\* ------------------------------------------------------------- the remote API
\* What requests.get / raise_for_status / response.json can do with a request
ApiReplies(bodies) ==
    {[kind |-> "error"], [kind |-> "badjson"]} \cup {[kind |-> "json", body |-> b] : b \in bodies}

StockFull == [name |-> "Apple Inc.", exchange |-> <<"NASDAQ">>]
StockBare == [name |-> "Apple Inc."]
StocksBodies ==
    { Dict(EmptyDict),
      Dict([status |-> "error"]),
      Dict([data |-> List(<<>>)]),
      Dict([data |-> List(<<Dict(StockFull)>>)]),
      Dict([data |-> List(<<Dict(StockBare), Dict(StockFull)>>)]),
      Dict([data |-> Dict(StockBare)]),
      List(<<Dict(StockFull)>>) }

\* Documents of a filing: two .htm documents (one behind the inline viewer,
\* one without a 'type') and one .html document
UrlViewer == <<"https://www.sec.gov", "/ix?doc=", "/Archives", "/a8k", ".htm">>
UrlPlain == <<"https://www.sec.gov", "/Archives", "/ex99", ".htm">>
UrlHtml == <<"https://www.sec.gov", "/Archives", "/r1", ".htm", "l">>
FileInfos ==
    { [url |-> UrlViewer, type |-> "8-K"],
      [url |-> UrlPlain],
      [url |-> UrlHtml, type |-> "XML"] }
\* Lists of documents, none listed twice
FileLists ==
    {fs \in SeqsUpTo(FileInfos, MaxFiles) : \A a, b \in 1..Len(fs) : fs[a] = fs[b] => a = b}
\* A filing without 'files', and filings with every short list of distinct documents
Filings ==
    {[filing_url |-> "https://www.sec.gov/Archives/0001.txt", filed_at |-> 1715342400]}
    \cup {[filing_url |-> "https://www.sec.gov/Archives/0002.txt", filed_at |-> 1715342400,
           files |-> fs] : fs \in FileLists}
FilingsBodies ==
    {Dict(EmptyDict), Dict([status |-> "error"]), List(<<>>)}
    \cup {Dict([values |-> vs]) : vs \in SeqsUpTo(Filings, MaxFilings)}

OtherTicker == <<"TSLA">>
DividendsBodies(symbol) ==
    LET own == [symbol |-> symbol, ex_date |-> "2024-05-10", amount |-> 25, currency |-> "USD"]
        other == [symbol |-> OtherTicker, ex_date |-> "2024-06-01", amount |-> 10]
    IN  { List(<<>>),
          List(<<Dict(other)>>),
          List(<<Dict(other), Dict(own)>>),
          List(<<Dict(own), Str("n/a")>>),
          Dict([data |-> List(<<Dict(own)>>)]) }

\* make_api_request: raises without a key, else the decoded body or None
make_api_request(key, reply) ==
    IF ~key THEN [raised |-> TRUE, sent |-> FALSE]
    ELSE [raised |-> FALSE, sent |-> TRUE,
          data |-> IF reply.kind = "json" THEN reply.body ELSE None]

\* get_symbol_info, given what make_api_request returned
get_symbol_info(exchange, data) ==
    IF ~Truthy(data) \/ ~KeyIn("data", data) \/ ~Truthy(data.v.data) THEN None
    ELSE LET stock_data == IF data.v.data.t = "list" THEN data.v.data.v[1] ELSE data.v.data
         IN  Dict([name |-> Get(stock_data.v, "name", ""),
                   exchange |-> Get(stock_data.v, "exchange", exchange)])

\* report['files'] taken whole
AllFiles(files) == files

\* report['files'] restricted to the .htm documents
HtmFiles(files) == SelectSeq(files, LAMBDA f : EndsWith(Get(f, "url", <<>>), <<".htm">>))

\* file_url.replace("/ix?doc=/Archives", "/Archives")
normalize_url(file_url) == Replace(file_url, <<"/ix?doc=", "/Archives">>, <<"/Archives">>)

\* datetime.fromtimestamp(ts).strftime('%Y-%m-%d') if ts else '', on the
\* timestamps the filings carry (noon UTC, the same day in every time zone
\* from UTC-12 to UTC+11)
FiledAtDates == [ts \in {1715342400} |-> "2024-05-10"]
filed_at_date(filed_at_timestamp) ==
    IF filed_at_timestamp = 0 THEN "" ELSE FiledAtDates[filed_at_timestamp]

\* The first report at or after index rr that has .htm documents, skipping
\* reports without 'files' or without .htm documents
RECURSIVE scan_next(_, _)
scan_next(vals, rr) ==
    IF rr > Len(vals) THEN [done |-> TRUE, r |-> rr, htm_files |-> <<>>]
    ELSE IF "files" \notin DOMAIN vals[rr] THEN scan_next(vals, rr + 1)
    ELSE IF HtmFiles(vals[rr].files) = <<>> THEN scan_next(vals, rr + 1)
    ELSE [done |-> FALSE, r |-> rr, htm_files |-> HtmFiles(vals[rr].files)]

\* The report appended whatever matched
keep_report_always(report, matched, reps) ==
    Append(reps, [url |-> Get(report, "filing_url", ""),
                  filed_at |-> filed_at_date(Get(report, "filed_at", 0)),
                  files |-> matched])

\* The end of one report's iteration: it is kept only with matched files
keep_report(report, matched, reps) ==
    IF matched # <<>>
    THEN Append(reps, [url |-> Get(report, "filing_url", ""),
                       filed_at |-> filed_at_date(Get(report, "filed_at", 0)),
                       files |-> matched])
    ELSE reps

\* ------------------------------------------------------------- documents
Keyword == <<"d", "i", "v", "i", "d", "e", "n", "d">>
Fragments ==
    { <<"D", "I", "V", "I">>, <<"D", "E", "N", "D">>,
      <<"D", "i", "v", "i", "d", "e", "n", "d">>, <<" ", "D", "e", "c", "l", "a", "r", "e", "d">>,
      <<"d", "i", "v", "i", "d", "e">>, <<"d">>, <<"n", "d">> }
Texts == {Flatten(fs) : fs \in SeqsUpTo(Fragments, MaxFrags)}

\* What requests.get / raise_for_status can do with a document request
Downloads ==
    {[kind |-> "ok", text |-> t] : t \in Texts}
    \cup {[kind |-> "http_error", text |-> Keyword], [kind |-> "timeout"],
          [kind |-> "connection_error"]}

\* The document texts the whole run is explored with: "Dividend Declared" and
\* "divided"
SampleTexts ==
    { <<"D", "i", "v", "i", "d", "e", "n", "d">> \o <<" ", "D", "e", "c", "l", "a", "r", "e", "d">>,
      <<"d", "i", "v", "i", "d", "e">> \o <<"d">> }
SampleDownloads == {d \in Downloads : d.kind = "ok" => d.text \in SampleTexts}

\* 'dividend' in response.text
contains_dividend_cased(text) == Contains(Keyword, text)

\* 'dividend' in response.text.lower()
contains_dividend(text) == Contains(Keyword, Lower(text))

\* check_dividend_content: the value returned, and whether time.sleep ran
check_dividend_content(d) ==
    IF d.kind = "ok"
    THEN [has_dividend |-> contains_dividend(d.text), slept |-> TRUE]
    ELSE [has_dividend |-> FALSE, slept |-> FALSE]

\* ------------------------------------------------------------- dividends
\* get_dividends, given what make_api_request returned
get_dividends(symbol, data) ==
    IF ~Truthy(data) \/ data.t # "list" THEN [raised |-> FALSE, value |-> <<>>]
    ELSE IF \E k \in 1..Len(data.v) : data.v[k].t # "dict"
         THEN [raised |-> TRUE, value |-> <<>>]
         ELSE LET symbol_dividends ==
                      SelectSeq(data.v, LAMBDA d : KeyIn("symbol", d) /\ d.v.symbol = symbol)
              IN  [raised |-> FALSE,
                   value |-> [k \in 1..Len(symbol_dividends) |->
                                 [ex_date |-> Get(symbol_dividends[k].v, "ex_date", ""),
                                  amount |-> Get(symbol_dividends[k].v, "amount", 0)]]]

\* ------------------------------------------------------------- process_symbol
skip_after_info(info) == ~Truthy(info)
\* process_symbol without "if not sec_reports: return None"
never_skip_after_sec(sec) == FALSE
skip_after_sec(sec) == sec = <<>>
skip_after_dividends(dividends) == dividends = <<>>

make_result(symbol, info, dividends, sec) ==
    Dict([ticker |-> symbol, instrument_name |-> info.name, exchange |-> info.exchange,
          dividends |-> dividends, sec_reports |-> sec])

\* ------------------------------------------------------------- main
ValidDates == {"2024-01-01", "2024-12-31"}
\* datetime.strptime(s, '%Y-%m-%d') does not raise
valid_date(s) == s \in ValidDates

\* The loop body with results.append and no successful_count += 1
main_loop_step_uncounted(outcome, res, ok, bad) ==
    IF outcome.kind = "raise"
    THEN [results |-> res, successful_count |-> ok, failed_count |-> bad + 1,
          flow |-> "continue"]
    ELSE IF Truthy(outcome.value)
    THEN [results |-> Append(res, outcome.value.v), successful_count |-> ok,
          failed_count |-> bad, flow |-> "continue"]
    ELSE [results |-> res, successful_count |-> ok, failed_count |-> bad + 1,
          flow |-> "continue"]

\* The loop body without the try/except: an exception leaves main
main_loop_step_uncaught(outcome, res, ok, bad) ==
    IF outcome.kind = "raise"
    THEN [results |-> res, successful_count |-> ok, failed_count |-> bad, flow |-> "raise"]
    ELSE IF Truthy(outcome.value)
    THEN [results |-> Append(res, outcome.value.v), successful_count |-> ok + 1,
          failed_count |-> bad, flow |-> "continue"]
    ELSE [results |-> res, successful_count |-> ok, failed_count |-> bad + 1,
          flow |-> "continue"]

\* The loop body with the skipped symbol's entry kept
main_loop_step_keeps_none(outcome, res, ok, bad) ==
    IF outcome.kind = "raise"
    THEN [results |-> res, successful_count |-> ok, failed_count |-> bad + 1,
          flow |-> "continue"]
    ELSE [results |-> Append(res, outcome.value), successful_count |-> ok + 1,
          failed_count |-> bad, flow |-> "continue"]

\* One iteration of the loop over symbols, given how process_symbol ended
main_loop_step(outcome, res, ok, bad) ==
    IF outcome.kind = "raise"
    THEN [results |-> res, successful_count |-> ok, failed_count |-> bad + 1,
          flow |-> "continue"]
    ELSE IF Truthy(outcome.value)
    THEN [results |-> Append(res, outcome.value.v), successful_count |-> ok + 1,
          failed_count |-> bad, flow |-> "continue"]
    ELSE [results |-> res, successful_count |-> ok, failed_count |-> bad + 1,
          flow |-> "continue"]

\* ------------------------------------------------------------- state
VARIABLES
    api_key,            \* bool(API_KEY)
    args,               \* the parsed command line: start_date, end_date, limit
    pc,                 \* where main() is
    exit_code,          \* what main() returned (-1 while it runs)
    loaded,             \* what load_symbols returned (None before)
    symbols,            \* main's symbols, after the limit
    idx,                \* the 1-based index of the loop over symbols
    results, successful_count, failed_count,
    attempted,          \* the (symbol, exchange) pairs process_symbol was called with
    output,             \* the output file: None, the dumped list, or a failed write
    symbol_info,        \* process_symbol's symbol_info
    values, r,          \* get_sec_reports: data['values'] and the index of the report
    htm_files, j,       \* its .htm documents and the index of the file
    matched_files, reports,
    checked,            \* the calls of check_dividend_content made for this symbol:
                        \* the document, the URL requested and the value returned
    paced,              \* whether time.sleep ran in the latest of these calls
    call,               \* the requests and the outcome of the latest process_symbol
    download, has_dividend   \* one check_dividend_content call on its own

mainVars == <<pc, exit_code, loaded, symbols, idx, results, successful_count, failed_count,
              attempted, output>>
scanVars == <<values, r, htm_files, j, matched_files, reports, checked, paced>>
matchVars == <<download, has_dividend>>
vars == <<api_key, args, mainVars, symbol_info, scanVars, call, matchVars>>

cfgVars == <<api_key, args>>
fileVars == <<loaded, symbols, output>>
tallyVars == <<results, successful_count, failed_count>>

NoCall == [requests |-> <<>>, request_failed |-> FALSE, info |-> FALSE, filings |-> FALSE,
           dividends |-> FALSE, returned |-> "none"]

\* main() has parsed its arguments; nothing is loaded, nothing is running
Start ==
    /\ pc = "validate" /\ exit_code = -1
    /\ loaded = None /\ symbols = <<>> /\ idx = 0
    /\ results = <<>> /\ successful_count = 0 /\ failed_count = 0
    /\ attempted = <<>> /\ output = None
    /\ symbol_info = None
    /\ values = <<>> /\ r = 0 /\ htm_files = <<>> /\ j = 0
    /\ matched_files = <<>> /\ reports = <<>> /\ checked = <<>> /\ paced = TRUE
    /\ call = NoCall

Init ==
    /\ api_key \in BOOLEAN
    /\ args \in [start_date : {"2024-01-01", "2024-02-30"},
                 end_date : {"2024-12-31", "31/12/2024"},
                 limit : Limits]
    /\ Start
    /\ download = [kind |-> "none"] /\ has_dividend = None

\* main, lines 361-368
ValidateDates ==
    /\ pc = "validate"
    /\ IF valid_date(args.start_date) /\ valid_date(args.end_date)
       THEN pc' = "load" /\ exit_code' = exit_code
       ELSE pc' = "exit" /\ exit_code' = 1
    /\ UNCHANGED <<cfgVars, fileVars, idx, tallyVars, attempted, symbol_info, scanVars, call,
                   matchVars>>

\* main, lines 371-377: symbols.csv is not there
SymbolsFileMissing ==
    /\ pc = "load"
    /\ pc' = "exit" /\ exit_code' = 1
    /\ UNCHANGED <<cfgVars, fileVars, idx, tallyVars, attempted, symbol_info, scanVars, call,
                   matchVars>>

\* main, lines 371-387
LoadSymbols ==
    /\ pc = "load"
    /\ \E file \in CsvFiles :
          /\ loaded' = List(load_symbols(file))
          /\ symbols' = ApplyLimit(load_symbols(file), args.limit)
    /\ results' = <<>> /\ successful_count' = 0 /\ failed_count' = 0
    /\ idx' = 1
    /\ pc' = IF symbols' = <<>> THEN "export" ELSE "symbol"
    /\ UNCHANGED <<cfgVars, exit_code, output, attempted, symbol_info, scanVars, call,
                   matchVars>>

\* process_symbol has ended with outcome: the rest of the loop body (lines
\* 394-404) and the loop's next test; process_symbol's locals are gone
Return(outcome, ended) ==
    LET step == main_loop_step(outcome, results, successful_count, failed_count)
    IN  /\ results' = step.results
        /\ successful_count' = step.successful_count
        /\ failed_count' = step.failed_count
        /\ IF step.flow = "continue"
           THEN /\ idx' = idx + 1
                /\ pc' = IF idx + 1 > Len(symbols) THEN "export" ELSE "symbol"
                /\ exit_code' = exit_code
           ELSE idx' = idx /\ pc' = "exit" /\ exit_code' = 1
        /\ call' = ended
        /\ symbol_info' = None
        /\ values' = <<>> /\ r' = 0 /\ htm_files' = <<>> /\ j' = 0
        /\ matched_files' = <<>> /\ reports' = <<>> /\ checked' = <<>> /\ paced' = TRUE
        /\ UNCHANGED <<cfgVars, fileVars, matchVars>>

Raise(c) == Return([kind |-> "raise"], [c EXCEPT !.returned = "raise"])
ReturnNone(c) == Return([kind |-> "return", value |-> None], [c EXCEPT !.returned = "None"])

Sent(c, endpoint, reply) ==
    [c EXCEPT !.requests = Append(@, endpoint), !.request_failed = @ \/ reply.kind # "json"]

\* main lines 389-393, process_symbol lines 308-317, get_symbol_info
GetSymbolInfo ==
    /\ pc = "symbol"
    /\ attempted' = Append(attempted, symbols[idx])
    /\ \E reply \in ApiReplies(StocksBodies) :
          LET req == make_api_request(api_key, reply)
          IN  IF req.raised THEN Raise(NoCall)
              ELSE LET info == get_symbol_info(symbols[idx][2], req.data)
                       c == [Sent(NoCall, "stocks", reply) EXCEPT !.info = Truthy(info)]
                   IN  IF skip_after_info(info) THEN ReturnNone(c)
                       ELSE /\ symbol_info' = info
                            /\ call' = [c EXCEPT !.returned = "running"]
                            /\ pc' = "sec"
                            /\ UNCHANGED <<cfgVars, fileVars, exit_code, idx, tallyVars,
                                           scanVars, matchVars>>

\* get_sec_reports has returned sec (line 225): process_symbol lines 321-322
FinishSec(sec, c, vals, rr, chk, slept) ==
    IF skip_after_sec(sec) THEN ReturnNone([c EXCEPT !.filings = sec # <<>>])
    ELSE /\ pc' = "dividends"
         /\ reports' = sec
         /\ call' = [c EXCEPT !.filings = sec # <<>>]
         /\ values' = vals /\ r' = rr /\ htm_files' = <<>> /\ j' = 0
         /\ matched_files' = <<>> /\ checked' = chk /\ paced' = slept
         /\ UNCHANGED <<cfgVars, fileVars, exit_code, idx, tallyVars, symbol_info, matchVars>>

\* process_symbol line 320, get_sec_reports lines 152-185: the archive request
\* and the loop up to the first document to download
GetSecReports ==
    /\ pc = "sec"
    /\ UNCHANGED attempted
    /\ \E reply \in ApiReplies(FilingsBodies) :
          LET req == make_api_request(api_key, reply)
              c == Sent(call, "edgar_filings/archive", reply)
          IN  IF req.raised THEN Raise(call)
              ELSE IF ~Truthy(req.data) \/ ~KeyIn("values", req.data)
              THEN FinishSec(<<>>, c, <<>>, 0, <<>>, TRUE)
              ELSE LET nxt == scan_next(req.data.v.values, 1)
                   IN  IF nxt.done THEN FinishSec(<<>>, c, req.data.v.values, nxt.r, <<>>, TRUE)
                       ELSE /\ values' = req.data.v.values
                            /\ r' = nxt.r /\ htm_files' = nxt.htm_files /\ j' = 1
                            /\ matched_files' = <<>> /\ reports' = <<>> /\ checked' = <<>>
                            /\ paced' = TRUE
                            /\ call' = c
                            /\ pc' = "docs"
                            /\ UNCHANGED <<cfgVars, fileVars, exit_code, idx, tallyVars,
                                           symbol_info, matchVars>>

\* get_sec_reports lines 189-222 for one file of the report, and on to the next
\* document to download or to the end of get_sec_reports
CheckDocument ==
    /\ pc = "docs"
    /\ UNCHANGED attempted
    /\ LET file_info == htm_files[j]
           raw_url == Get(file_info, "url", <<>>)
           file_url == normalize_url(raw_url)
           fetched == raw_url # <<>>
       IN  \E d \in SampleDownloads :
              LET res == check_dividend_content(d)
                  matched == IF fetched /\ res.has_dividend
                             THEN Append(matched_files,
                                         [url |-> file_url, type |-> Get(file_info, "type", "")])
                             ELSE matched_files
                  chk == IF fetched
                         THEN Append(checked, [r |-> r, file_info |-> file_info,
                                               url |-> file_url, hit |-> res.has_dividend])
                         ELSE checked
                  slept == IF fetched THEN res.slept ELSE paced
              IN  IF j < Len(htm_files)
                  THEN /\ j' = j + 1 /\ matched_files' = matched
                       /\ checked' = chk /\ paced' = slept
                       /\ UNCHANGED <<cfgVars, fileVars, pc, exit_code, idx, tallyVars,
                                      symbol_info, values, r, htm_files, reports, call,
                                      matchVars>>
                  ELSE LET reps == keep_report(values[r], matched, reports)
                           nxt == scan_next(values, r + 1)
                       IN  IF nxt.done
                           THEN FinishSec(reps, call, values, nxt.r, chk, slept)
                           ELSE /\ r' = nxt.r /\ htm_files' = nxt.htm_files /\ j' = 1
                                /\ matched_files' = <<>> /\ reports' = reps
                                /\ checked' = chk /\ paced' = slept
                                /\ UNCHANGED <<cfgVars, fileVars, pc, exit_code, idx,
                                               tallyVars, symbol_info, values, call,
                                               matchVars>>

\* process_symbol lines 325-340, get_dividends
GetDividends ==
    /\ pc = "dividends"
    /\ UNCHANGED attempted
    /\ \E reply \in ApiReplies(DividendsBodies(symbols[idx][1])) :
          LET req == make_api_request(api_key, reply)
              c == Sent(call, "dividends_calendar", reply)
          IN  IF req.raised THEN Raise(call)
              ELSE LET got == get_dividends(symbols[idx][1], req.data)
                       found == [c EXCEPT !.dividends = got.value # <<>>]
                   IN  IF got.raised THEN Raise(c)
                       ELSE IF skip_after_dividends(got.value) THEN ReturnNone(found)
                       ELSE Return([kind |-> "return",
                                    value |-> make_result(symbols[idx][1], symbol_info.v,
                                                          got.value, reports)],
                                   [found EXCEPT !.returned = "data"])

\* main, lines 407-420
WriteOutput ==
    /\ pc = "export"
    /\ output' = List(results)
    /\ pc' = "exit" /\ exit_code' = 0
    /\ UNCHANGED <<cfgVars, loaded, symbols, idx, tallyVars, attempted, symbol_info, scanVars,
                   call, matchVars>>

\* main, lines 409-418: open or json.dump raises
WriteFails ==
    /\ pc = "export"
    /\ output' = [t |-> "failed"]
    /\ pc' = "exit" /\ exit_code' = 1
    /\ UNCHANGED <<cfgVars, loaded, symbols, idx, tallyVars, attempted, symbol_info, scanVars,
                   call, matchVars>>

Next ==
    \/ ValidateDates
    \/ SymbolsFileMissing
    \/ LoadSymbols
    \/ GetSymbolInfo
    \/ GetSecReports
    \/ CheckDocument
    \/ GetDividends
    \/ WriteOutput
    \/ WriteFails

Spec == Init /\ [][Next]_vars

\* ------------------------------------------------------------- one document check
\* check_dividend_content on its own: one download, drawn from every text
InitMatch ==
    /\ api_key = TRUE
    /\ args = [start_date |-> "2024-01-01", end_date |-> "2024-12-31", limit |-> 0]
    /\ Start
    /\ download \in Downloads /\ has_dividend = None

CheckContent ==
    /\ has_dividend = None
    /\ has_dividend' = [t |-> "bool", v |-> check_dividend_content(download).has_dividend]
    /\ UNCHANGED <<cfgVars, mainVars, symbol_info, scanVars, call, download>>

NextMatch == CheckContent

SpecMatch == InitMatch /\ [][NextMatch]_vars

\* ------------------------------------------------------------- properties
InLoop == pc \in {"symbol", "sec", "docs", "dividends"}
InCall == pc \in {"sec", "docs", "dividends"}
Prefix(s, n) == [k \in 1..n |-> s[k]]
Smaller(a, b) == IF a < b THEN a ELSE b

\* C1: the list in results, and the list written to the output file, always has
\* successful_count elements.
C1_OutputLengthIsSuccessCount ==
    /\ Len(results) = successful_count
    /\ output.t = "list" => Len(output.v) = successful_count

C1_Witness ==
    /\ pc = "exit" /\ output.t = "list"
    /\ successful_count = 1 /\ failed_count = 1

\* The matched files the calls logged for report rr, as get_sec_reports keeps them
Hits(rr) ==
    LET mine == SelectSeq(checked, LAMBDA e : e.r = rr /\ e.hit)
    IN  [k \in 1..Len(mine) |-> [url |-> mine[k].url, type |-> Get(mine[k].file_info, "type", "")]]

\* The reports among the first rr of the response with a matched file, in order
RECURSIVE ExpectedReports(_)
ExpectedReports(rr) ==
    IF rr = 0 THEN <<>>
    ELSE ExpectedReports(rr - 1) \o
         (IF Hits(rr) = <<>> THEN <<>>
          ELSE << [url |-> Get(values[rr], "filing_url", ""),
                   filed_at |-> filed_at_date(Get(values[rr], "filed_at", 0)),
                   files |-> Hits(rr)] >>)

\* C2: while get_sec_reports runs and once it has returned, its list holds
\* exactly the filings with a document for which check_dividend_content
\* returned true, each with exactly those documents; no filing, in the list or
\* in an output record, has an empty files list.
C2_OnlyMatchedFilingsAndFiles ==
    /\ InCall /\ pc # "sec" =>
          /\ reports = ExpectedReports(r - 1)
          /\ pc = "docs" => matched_files = Hits(r)
    /\ \A k \in 1..Len(reports) : reports[k].files # <<>>
    /\ \A n \in 1..Len(results) :
          \A k \in 1..Len(results[n].sec_reports) : results[n].sec_reports[k].files # <<>>

\* One filing had documents checked and none matched, another is returned with
\* one document matched and one not.
C2_Witness ==
    /\ pc = "dividends" /\ Len(reports) = 1 /\ Len(reports[1].files) = 1
    /\ \E a, b \in 1..Len(values) :
          /\ a # b
          /\ \E e \in 1..Len(checked) : checked[e].r = a
          /\ \A e \in 1..Len(checked) : checked[e].r = a => ~checked[e].hit
          /\ \E e, f \in 1..Len(checked) :
                checked[e].r = b /\ checked[f].r = b /\ checked[e].hit /\ ~checked[f].hit

\* C3: every document check_dividend_content was called for is a document of
\* its report whose URL ends in .htm.
C3_OnlyHtmFetched ==
    \A e \in 1..Len(checked) :
        /\ EndsWith(Get(checked[e].file_info, "url", <<>>), <<".htm">>)
        /\ \E f \in 1..Len(values[checked[e].r].files) :
              values[checked[e].r].files[f] = checked[e].file_info

\* A report's .htm document was checked beside an .html one that was not, and
\* a report with only an .html document had nothing checked.
C3_Witness ==
    /\ pc = "dividends"
    /\ \E a, b \in 1..Len(values) :
          /\ "files" \in DOMAIN values[a] /\ Len(values[a].files) = 1
          /\ \A e \in 1..Len(checked) : checked[e].r # a
          /\ "files" \in DOMAIN values[b] /\ Len(values[b].files) = 2
          /\ Len(SelectSeq(checked, LAMBDA e : e.r = b)) = 1

\* C4: without an API key the run sends no request and ends with exit code 1.
C4_MissingKeyIsFatal ==
    ~api_key =>
        /\ call.requests = <<>> /\ checked = <<>>
        /\ pc = "exit" => exit_code = 1

\* C5: once the symbols are loaded the run leaves the loop only at its end:
\* the symbols are attempted in file order whatever happens to each, the output
\* is then written, and a written output means exit code 0.
C5_FailuresNeverAbort ==
    loaded.t = "list" =>
        /\ InLoop => exit_code = -1
        /\ pc = "symbol" => attempted = Prefix(symbols, idx - 1)
        /\ InCall => attempted = Prefix(symbols, idx)
        /\ pc \in {"export", "exit"} => attempted = symbols
        /\ pc = "exit" => output.t # "None"
        /\ output.t = "list" => exit_code = 0 /\ output.v = results

\* The first of two symbols raised inside process_symbol, the second was still
\* processed and the run exited 0.
C5_Witness ==
    /\ pc = "exit" /\ exit_code = 0 /\ Len(symbols) = 2
    /\ symbols[1] # symbols[2]
    /\ failed_count = 1 /\ Len(results) = 1 /\ results[1].ticker = symbols[2][1]

\* C6: when a document has been requested and the next is about to be,
\* time.sleep has run since the request.
C6_PauseAfterEveryFetch ==
    pc = "docs" /\ checked # <<>> => paced

\* What the limit should leave of the loaded list
ExpectedSymbols ==
    IF args.limit > 0
    THEN Prefix(loaded.v, Smaller(args.limit, Len(loaded.v)))
    ELSE loaded.v

\* C7: the symbols attempted are the first min(limit, len) loaded ones for a
\* positive limit and all of them for limit 0, in file order, and each call of
\* process_symbol that has ended is counted once as a success or a failure.
C7_LimitBoundsAttempts ==
    loaded.t = "list" =>
        /\ Len(attempted) <= Len(ExpectedSymbols)
        /\ attempted = Prefix(ExpectedSymbols, Len(attempted))
        /\ args.limit > 0 => Len(attempted) <= args.limit
        /\ pc \in {"export", "exit"} => attempted = ExpectedSymbols
        /\ Len(attempted) = successful_count + failed_count + (IF InCall THEN 1 ELSE 0)

C7_Witness ==
    /\ pc = "exit" /\ loaded.t = "list"
    /\ args.limit = 1 /\ Len(loaded.v) = 2 /\ Len(attempted) = 1

\* C8: a call of process_symbol that ends because the metadata request found
\* no data adds one to failed_count and leaves results and successful_count as
\* they were.
C8_NoMetadataCountsOneFailure ==
    [][ (pc = "symbol" /\ call'.requests = <<"stocks">> /\ ~call'.info)
        => /\ call'.returned = "None"
           /\ results' = results
           /\ successful_count' = successful_count
           /\ failed_count' = failed_count + 1 ]_vars

\* After one symbol succeeded, the next found no metadata.
C8_Witness ==
    /\ call.requests = <<"stocks">> /\ ~call.info /\ call.returned = "None"
    /\ Len(results) = 1 /\ failed_count = 1

Stages == <<"stocks", "edgar_filings/archive", "dividends_calendar">>

\* C10: process_symbol issues its requests in the order metadata, filings,
\* dividends, each only after the earlier stages found something; it returns a
\* record exactly when all three did, and a request that failed ends it with
\* None.
C10_StagesGateTheResult ==
    /\ call.requests = Prefix(Stages, Len(call.requests))
    /\ Len(call.requests) >= 2 => call.info
    /\ Len(call.requests) = 3 => call.filings
    /\ call.returned = "data" <=> (call.info /\ call.filings /\ call.dividends)
    /\ call.returned = "data" =>
          /\ results[Len(results)].sec_reports # <<>>
          /\ results[Len(results)].dividends # <<>>
    /\ call.request_failed => call.returned = "None"

\* Metadata was found, the filings request succeeded but no filing matched: the
\* symbol is dropped and the dividends request was never sent.
C10_Witness ==
    /\ call.returned = "None" /\ Len(call.requests) = 2
    /\ call.info /\ ~call.filings /\ ~call.request_failed

\* text[off+1 .. off+8] spells the keyword, each letter in either case
LowerToUpper == [d |-> "D", i |-> "I", v |-> "V", e |-> "E", n |-> "N"]
SpellsKeywordAt(text, off) ==
    \A k \in 1..Len(Keyword) :
        text[off + k] = Keyword[k] \/ text[off + k] = LowerToUpper[Keyword[k]]

\* C9: check_dividend_content returns true exactly when the download succeeded
\* and the text holds "dividend" in any mix of cases: "DIVIDEND" and "Dividend
\* Declared" match, "divided" does not.
C9_CaseInsensitiveKeyword ==
    has_dividend.t = "bool" =>
        /\ has_dividend.v <=>
              /\ download.kind = "ok"
              /\ \E off \in 0..(Len(download.text) - Len(Keyword)) :
                    SpellsKeywordAt(download.text, off)
        /\ download.kind = "ok" =>
              /\ download.text = <<"D", "I", "V", "I", "D", "E", "N", "D">> => has_dividend.v
              /\ download.text = <<"D", "i", "v", "i", "d", "e", "n", "d", " ", "D", "e", "c",
                                   "l", "a", "r", "e", "d">> => has_dividend.v
              /\ download.text = <<"d", "i", "v", "i", "d", "e", "d">> => ~has_dividend.v

C9_Witness ==
    /\ has_dividend = [t |-> "bool", v |-> TRUE]
    /\ download = [kind |-> "ok", text |-> <<"D", "I", "V", "I", "D", "E", "N", "D">>]

====
